---- MODULE Spec2Model ----
(***************************************************************************)
(* Model of src/src/solver.py: validation of the spin configurations, the  *)
(* neighbour-shell vectorizer, the design-matrix assembler and ranker, the *)
(* exact and the least-squares solver and the critical-temperature         *)
(* estimator.  Each component has its own specification over the shared    *)
(* variables; the variables of the other components stay idle.             *)
(*                                                                         *)
(* Numbers: magnetic moments are integers in units of 0.01 mu_B, energies  *)
(* are integers in units of 0.1 eV, the entries of the scaled design       *)
(* matrix are integers in units of 1/4 (S(S+1) = spin2*(spin2+2)/4 with    *)
(* spin2 = 2S), and a solution of a linear system is an exact rational     *)
(* vector [num, den] with the components num[j]/den.                       *)
(***************************************************************************)
EXTENDS Integers, Sequences, FiniteSets, TLC

VARIABLES
    pc,                 \* control state of the running function
    \* find_good_structures / is_good_structure
    path_exists,        \* os.path.exists(vasp_inputs_path)
    listed,             \* number of entries os.listdir returns
    ref_magmom,         \* get_spin(fm0/OUTCAR)
    idx,                \* number of listed entries examined so far
    magnetic_conf,      \* the entry examined last (its files and their contents)
    good_struct_list,
    bad_struct_list,
    \* count_nn / get_nn_list
    neighbours,         \* the list a of (element, distance) pairs
    unique_dist,        \* the iteration order of the set of unique distances
    dist_neighbNum,     \* the dict, as a sequence of <<distance, count>> in insertion order
    nn_list,
    \* nn_matrix_getter / sorted_matrix_getter
    E_list,
    nn_lists,           \* get_nn_list of every good structure
    spin2,              \* twice the spin
    nn_matrix,
    full_matrix,
    argsort,            \* np.argsort(full_matrix[:, -1])
    \* j_vector_exact / j_vector_lstsq
    sorted_matrix,      \* rows of coefficients, the energy in the last column
    i,                  \* loop variable of the solvers
    results,
    E_geom_list,
    j_vectors_list,
    \* Tc_list_getter
    j_vector_list,
    z_vector,
    T_c_list

valVars == <<path_exists, listed, ref_magmom, idx, magnetic_conf,
             good_struct_list, bad_struct_list>>
nnVars == <<neighbours, unique_dist, dist_neighbNum, nn_list>>
rankVars == <<E_list, nn_lists, spin2, nn_matrix, full_matrix, argsort>>
solveVars == <<sorted_matrix, i, results, E_geom_list, j_vectors_list>>
tcVars == <<j_vector_list, z_vector, T_c_list>>
vars == <<pc, valVars, nnVars, rankVars, solveVars, tcVars>>

Idle == <<>>

ValIdle ==
    /\ path_exists = FALSE /\ listed = 0 /\ ref_magmom = 0 /\ idx = 0
    /\ magnetic_conf = Idle /\ good_struct_list = <<>> /\ bad_struct_list = <<>>
NNIdle ==
    /\ neighbours = <<>> /\ unique_dist = <<>> /\ dist_neighbNum = <<>>
    /\ nn_list = <<>>
RankIdle ==
    /\ E_list = <<>> /\ nn_lists = <<>> /\ spin2 = 0 /\ nn_matrix = <<>>
    /\ full_matrix = <<>> /\ argsort = <<>>
SolveIdle ==
    /\ sorted_matrix = <<>> /\ i = 0 /\ results = <<>>
    /\ E_geom_list = <<>> /\ j_vectors_list = <<>>
TcIdle ==
    /\ j_vector_list = <<>> /\ z_vector = <<>> /\ T_c_list = <<>>

Abs(x) == IF x < 0 THEN -x ELSE x
Min(x, y) == IF x < y THEN x ELSE y
Range(s) == {s[k] : k \in DOMAIN s}
Take(s, n) == SubSeq(s, 1, Min(n, Len(s)))

(***************************************************************************)
(* Validation: get_spin, is_good_structure, find_good_structures           *)
(***************************************************************************)
MaxConfs == 3

Moments == {-380, -200, 0, 200, 360, 380}
RefMoments == {-400, 400}

\* an OUTCAR as get_spin sees it: parsing raises or yields magnetization[0]['tot']
Outcars(M) == [readable : BOOLEAN, tot : M]

\* the content of one listed entry of vasp_inputs
Confs ==
    [vasprun_exists : BOOLEAN, osz_exists : BOOLEAN, outcar_exists : BOOLEAN,
     vasprun_parses : BOOLEAN, converged : BOOLEAN,
     converged_electronic : BOOLEAN, converged_ionic : BOOLEAN,
     outcar : Outcars(Moments)]

get_spin(outcar) == IF outcar.readable THEN outcar.tot ELSE 0

\* line 110: abs(get_spin(outcar_path)) < 0.9 * ref_magmom
LowSpin(conf, ref) == 10 * Abs(get_spin(conf.outcar)) < 9 * ref

FilesExist(conf) == conf.vasprun_exists /\ conf.osz_exists /\ conf.outcar_exists

\* a missing file is classified instead of asserted
is_good_structure_noassert(conf, ref) ==
    IF ~FilesExist(conf) THEN "False"
    ELSE IF ~conf.vasprun_parses THEN "False"
    ELSE IF ~(conf.converged /\ conf.converged_electronic /\ conf.converged_ionic)
         THEN "False"
    ELSE IF LowSpin(conf, ref) THEN "False"
    ELSE "True"

\* "AssertionError", "True" or "False"
is_good_structure(conf, ref) ==
    IF ~FilesExist(conf) THEN "AssertionError"
    ELSE IF ~conf.vasprun_parses THEN "False"
    ELSE IF ~(conf.converged /\ conf.converged_electronic /\ conf.converged_ionic)
         THEN "False"
    ELSE IF LowSpin(conf, ref) THEN "False"
    ELSE "True"

InitValid ==
    /\ pc = "find_good_structures"
    /\ path_exists \in BOOLEAN
    /\ listed \in 0..MaxConfs
    /\ ref_magmom = 0
    /\ idx = 0
    /\ magnetic_conf = Idle
    /\ good_struct_list = <<>>
    /\ bad_struct_list = <<>>
    /\ NNIdle /\ RankIdle /\ SolveIdle /\ TcIdle

\* lines 117-124: the assertion on the input path and the reference moment
FindPathAbsent ==
    /\ pc = "find_good_structures"
    /\ ~path_exists
    /\ pc' = "AssertionError_path"
    /\ UNCHANGED <<valVars, nnVars, rankVars, solveVars, tcVars>>

FindBegin ==
    /\ pc = "find_good_structures"
    /\ path_exists
    /\ \E outcar \in Outcars(RefMoments) : ref_magmom' = get_spin(outcar)
    /\ pc' = "listdir"
    /\ UNCHANGED <<path_exists, listed, idx, magnetic_conf, good_struct_list,
                   bad_struct_list, nnVars, rankVars, solveVars, tcVars>>

\* lines 127-132: one iteration of the loop over os.listdir
ExamineAssert ==
    /\ pc = "listdir"
    /\ idx < listed
    /\ \E conf \in Confs :
        /\ is_good_structure(conf, ref_magmom) = "AssertionError"
        /\ magnetic_conf' = conf
    /\ idx' = idx + 1
    /\ pc' = "AssertionError_file"
    /\ UNCHANGED <<path_exists, listed, ref_magmom, good_struct_list,
                   bad_struct_list, nnVars, rankVars, solveVars, tcVars>>

ExamineGood ==
    /\ pc = "listdir"
    /\ idx < listed
    /\ \E conf \in Confs :
        /\ is_good_structure(conf, ref_magmom) = "True"
        /\ magnetic_conf' = conf
    /\ idx' = idx + 1
    /\ good_struct_list' = Append(good_struct_list, idx + 1)
    /\ UNCHANGED <<pc, path_exists, listed, ref_magmom, bad_struct_list,
                   nnVars, rankVars, solveVars, tcVars>>

ExamineBad ==
    /\ pc = "listdir"
    /\ idx < listed
    /\ \E conf \in Confs :
        /\ is_good_structure(conf, ref_magmom) = "False"
        /\ magnetic_conf' = conf
    /\ idx' = idx + 1
    /\ bad_struct_list' = Append(bad_struct_list, idx + 1)
    /\ UNCHANGED <<pc, path_exists, listed, ref_magmom, good_struct_list,
                   nnVars, rankVars, solveVars, tcVars>>

\* line 133
FindReturn ==
    /\ pc = "listdir"
    /\ idx = listed
    /\ pc' = "returned"
    /\ UNCHANGED <<valVars, nnVars, rankVars, solveVars, tcVars>>

NextValid ==
    \/ FindPathAbsent
    \/ FindBegin
    \/ ExamineAssert
    \/ ExamineGood
    \/ ExamineBad
    \/ FindReturn

SpecValid == InitValid /\ [][NextValid]_vars

\* what has been classified so far: the two lists partition 1..n in discovery order
Ascending(s) == \A k \in 1..Len(s) - 1 : s[k] < s[k + 1]
Classified(n) ==
    /\ Range(good_struct_list) \cup Range(bad_struct_list) = 1..n
    /\ Range(good_struct_list) \cap Range(bad_struct_list) = {}
    /\ Len(good_struct_list) + Len(bad_struct_list) = n
    /\ Ascending(good_struct_list)
    /\ Ascending(bad_struct_list)

\* C5: a configuration whose required files exist is classified usable if and
\* only if its convergence status can be read and is true and its moment is at
\* least 0.9 times the reference moment in absolute value, for every reference
\* moment (a negative one and the 0 of an unreadable reference included).
C5_UsableIffConvergedAndSpin ==
    (pc = "listdir" /\ idx > 0) =>
        ((idx \in Range(good_struct_list)) <=>
            /\ magnetic_conf.vasprun_parses
            /\ magnetic_conf.converged
            /\ magnetic_conf.converged_electronic
            /\ magnetic_conf.converged_ionic
            /\ 10 * Abs(get_spin(magnetic_conf.outcar)) >= 9 * Abs(ref_magmom))

\* C10: a configuration that fails validation never aborts the pass: every
\* examined entry is in exactly one of the two lists, in discovery order, the
\* pass returns only after all listed entries were examined, and the pass
\* aborts exactly on an entry with a missing required file, which is then in
\* neither list.
C10_ValidationPass ==
    /\ pc \in {"listdir", "returned"} =>
        /\ Classified(idx)
        /\ idx > 0 => FilesExist(magnetic_conf)
    /\ pc = "returned" => idx = listed
    /\ pc = "AssertionError_file" =>
        /\ ~FilesExist(magnetic_conf)
        /\ Classified(idx - 1)

\* C10 witness: the pass returned with a usable entry classified after an
\* unusable one.
C10_Witness ==
    /\ pc = "returned"
    /\ \E b \in Range(bad_struct_list) : \E g \in Range(good_struct_list) : b < g

(***************************************************************************)
(* Neighbour shells: count_nn, get_nn_list                                 *)
(***************************************************************************)
MaxNeigh == 3

Elements == {"Fe", "Po", "O"}
\* distances in 1e-4 Angstrom, as st.nn returns them before rounding
RawDists == {24996, 25004, 35352, 43301}
magnetic_atoms == <<"Fe", "Po">>

\* round(dist, 3): to 1e-3 Angstrom
Round3(dist) == (dist + 5) \div 10

SeqsUpTo(S, n) == UNION {[1..m -> S] : m \in 0..n}
Perms(S) == {s \in [1..Cardinality(S) -> S] : \A k, l \in DOMAIN s : k # l => s[k] # s[l]}

\* line 49
UniqueDist(a) ==
    {Round3(a[k].dist) : k \in {l \in DOMAIN a : a[l].el \in Range(magnetic_atoms)}}

\* lines 56-62: the signed count of one distance
RECURSIVE CountAt(_, _, _)
CountAt(a, dist, k) ==
    IF k = 0 THEN 0
    ELSE CountAt(a, dist, k - 1) +
         (IF Round3(a[k].dist) # dist THEN 0
          ELSE IF a[k].el = magnetic_atoms[1] THEN 1
          ELSE IF a[k].el = magnetic_atoms[2] THEN -1
          ELSE 0)

\* lines 53-63: the dict is filled in the iteration order of the set
count_nn(a, order) == [k \in DOMAIN order |-> <<order[k], CountAt(a, order[k], Len(a))>>]

\* lines 67-69: list(dict.values())
get_nn_list(d) == [k \in DOMAIN d |-> d[k][2]]

InitNN ==
    /\ pc \in {"count_nn", "count_nn_nofile"}
    /\ neighbours \in SeqsUpTo([el : Elements, dist : RawDists], MaxNeigh)
    /\ unique_dist = <<>>
    /\ dist_neighbNum = <<>>
    /\ nn_list = <<>>
    /\ ValIdle /\ RankIdle /\ SolveIdle /\ TcIdle

\* lines 40-42 and 67-68: count_nn returns None, whose values() raises
CountNNNoFile ==
    /\ pc = "count_nn_nofile"
    /\ pc' = "AttributeError"
    /\ UNCHANGED <<valVars, nnVars, rankVars, solveVars, tcVars>>

\* lines 43-63
CountNN ==
    /\ pc = "count_nn"
    /\ \E order \in Perms(UniqueDist(neighbours)) :
        /\ unique_dist' = order
        /\ dist_neighbNum' = count_nn(neighbours, order)
    /\ pc' = "values"
    /\ UNCHANGED <<neighbours, nn_list, valVars, rankVars, solveVars, tcVars>>

\* lines 67-69
GetNNList ==
    /\ pc = "values"
    /\ nn_list' = get_nn_list(dist_neighbNum)
    /\ pc' = "nn_returned"
    /\ UNCHANGED <<neighbours, unique_dist, dist_neighbNum, valVars, rankVars,
                   solveVars, tcVars>>

NextNN ==
    \/ CountNNNoFile
    \/ CountNN
    \/ GetNNList

SpecNN == InitNN /\ [][NextNN]_vars

\* the k-th smallest element of a set of numbers
RECURSIVE KthSmallest(_, _)
KthSmallest(S, k) ==
    LET m == CHOOSE x \in S : \A y \in S : x <= y
    IN IF k = 1 THEN m ELSE KthSmallest(S \ {m}, k - 1)

NetCount(a, dist) ==
    Cardinality({k \in DOMAIN a : a[k].el = "Fe" /\ Round3(a[k].dist) = dist})
    - Cardinality({k \in DOMAIN a : a[k].el = "Po" /\ Round3(a[k].dist) = dist})

\* C8: the emitted vector lists the shells in ascending order of the rounded
\* distance: entry k is the net count (+1 per up, -1 per down neighbour) of the
\* k-th nearest distinct distance, whatever the iteration order of the set.
C8_ShellsAscending ==
    pc = "nn_returned" =>
        /\ Len(nn_list) = Cardinality(UniqueDist(neighbours))
        /\ \A k \in DOMAIN nn_list :
            nn_list[k] = NetCount(neighbours, KthSmallest(UniqueDist(neighbours), k))

(***************************************************************************)
(* Assembler and ranker: nn_matrix_getter, sorted_matrix_getter            *)
(***************************************************************************)
MaxGood == 3
MaxShells == 3
MaxCells == 6

RankCounts == {-1, 0, 2}
RankEnergies == {-3, -2, -1}
\* twice the values of spin_dict (line 382)
Spins2 == {1, 2, 3, 4, 5, 6}

\* lines 150-156: one row per good structure, truncated to N - 1 shells
TruncatedRows(lists) == [r \in DOMAIN lists |-> Take(lists[r], Len(lists) - 1)]

\* line 157: np.append(np.ones([N, 1]), nn_matrix, 1)
nn_matrix_getter(lists) == [r \in DOMAIN lists |-> <<1>> \o TruncatedRows(lists)[r]]

\* 4 * spin * (spin + 1)
SpinFactor4(s2) == s2 * (s2 + 2)

\* line 170: nn_matrix * spin * (spin + 1), in quarters
nn_spin_matrix(m, s2) ==
    [r \in DOMAIN m |-> [c \in DOMAIN m[r] |-> m[r][c] * SpinFactor4(s2)]]

\* lines 172-173: the energies become the last column
AppendColumn(m, col) == [r \in DOMAIN m |-> Append(m[r], col[r])]

Last(row) == row[Len(row)]

\* line 175: the results np.argsort may return: any order that sorts the last
\* column (the default kind is not a stable sort)
ArgSorts(m) ==
    {p \in Perms(DOMAIN m) : \A r \in 1..Len(m) - 1 : Last(m[p[r]]) <= Last(m[p[r + 1]])}

\* the row indexing is dropped: the rows stay in discovery order with the
\* sorted energies put in their last column
IndexEnergiesOnly(m, p) ==
    [r \in DOMAIN m |-> [c \in DOMAIN m[r] |->
        IF c = Len(m[r]) THEN Last(m[p[r]]) ELSE m[r][c]]]

\* line 175: full_matrix[order]
IndexRows(m, p) == [r \in DOMAIN m |-> m[p[r]]]

RankInputs ==
    UNION {[E : [1..n -> RankEnergies], nn : [1..n -> [1..k -> RankCounts]]] :
           <<n, k>> \in {q \in (0..MaxGood) \X (0..MaxShells) : q[1] * q[2] <= MaxCells}}

InitRank ==
    /\ pc = "nn_matrix_getter"
    /\ \E inp \in RankInputs :
        /\ E_list = inp.E
        /\ nn_lists = inp.nn
    /\ spin2 \in Spins2
    /\ nn_matrix = <<>>
    /\ full_matrix = <<>>
    /\ argsort = <<>>
    /\ sorted_matrix = <<>> /\ i = 0 /\ results = <<>>
    /\ E_geom_list = <<>> /\ j_vectors_list = <<>>
    /\ ValIdle /\ NNIdle /\ TcIdle

\* line 157 with no good structure: np.append of a 2-d and a 1-d array raises
NNMatrixEmpty ==
    /\ pc = "nn_matrix_getter"
    /\ Len(nn_lists) = 0
    /\ pc' = "ValueError"
    /\ UNCHANGED <<valVars, nnVars, rankVars, solveVars, tcVars>>

\* lines 148-158
NNMatrixGetter ==
    /\ pc = "nn_matrix_getter"
    /\ Len(nn_lists) > 0
    /\ nn_matrix' = nn_matrix_getter(nn_lists)
    /\ pc' = "scale"
    /\ UNCHANGED <<E_list, nn_lists, spin2, full_matrix, argsort, valVars, nnVars,
                   solveVars, tcVars>>

\* lines 170-173
ScaleAndAppend ==
    /\ pc = "scale"
    /\ full_matrix' = AppendColumn(nn_spin_matrix(nn_matrix, spin2), E_list)
    /\ pc' = "argsort"
    /\ UNCHANGED <<E_list, nn_lists, spin2, nn_matrix, argsort, valVars, nnVars,
                   solveVars, tcVars>>

\* lines 175-177
SortRows ==
    /\ pc = "argsort"
    /\ \E p \in ArgSorts(full_matrix) :
        /\ argsort' = p
        /\ sorted_matrix' = IndexRows(full_matrix, p)
    /\ pc' = "returned"
    /\ UNCHANGED <<E_list, nn_lists, spin2, nn_matrix, full_matrix, i, results, E_geom_list, j_vectors_list,
                   valVars, nnVars, tcVars>>

NextRank ==
    \/ NNMatrixEmpty
    \/ NNMatrixGetter
    \/ ScaleAndAppend
    \/ SortRows

SpecRank == InitRank /\ [][NextRank]_vars

\* the number of shell columns the assembler keeps
ShellColumns == IF Len(nn_lists) = 0 THEN 0 ELSE Min(Len(nn_lists[1]), Len(nn_lists) - 1)

\* C3: in every row of the matrix handed to the solvers the leading entry is
\* exactly 1, not multiplied by S(S+1), and every shell entry is the
\* configuration's shell count multiplied by S(S+1).
C3_LeadingOneUnscaled ==
    pc = "returned" =>
        \A r \in DOMAIN sorted_matrix :
            /\ sorted_matrix[r][1] = 4
            /\ \A c \in 1..ShellColumns :
                sorted_matrix[r][c + 1] = nn_lists[argsort[r]][c] * spin2 * (spin2 + 2)

IsPermutation(p, n) == DOMAIN p = 1..n /\ Range(p) = 1..n

RowAligned ==
    \A r \in DOMAIN sorted_matrix :
        /\ Len(sorted_matrix[r]) = ShellColumns + 2
        /\ Last(sorted_matrix[r]) = E_list[argsort[r]]
        /\ \A c \in 1..ShellColumns :
            sorted_matrix[r][c + 1] = nn_lists[argsort[r]][c] * spin2 * (spin2 + 2)

EnergiesAscending ==
    \A r \in 1..Len(sorted_matrix) - 1 :
        Last(sorted_matrix[r]) <= Last(sorted_matrix[r + 1])

\* C4 as stated: the ranked output is a permutation of the validated
\* configurations with non-decreasing energies, every row pairs a
\* configuration's energy with its own shell counts, and configurations of
\* equal energy keep their discovery order.
C4_StableRanking ==
    pc = "returned" =>
        /\ Len(sorted_matrix) = Len(E_list)
        /\ IsPermutation(argsort, Len(E_list))
        /\ EnergiesAscending
        /\ RowAligned
        /\ \A r, s \in DOMAIN argsort :
            (r < s /\ E_list[argsort[r]] = E_list[argsort[s]]) => argsort[r] < argsort[s]

\* C4 amended: the same without the order of equal energies.
C4_Ranking ==
    pc = "returned" =>
        /\ Len(sorted_matrix) = Len(E_list)
        /\ IsPermutation(argsort, Len(E_list))
        /\ EnergiesAscending
        /\ RowAligned

\* C4 witness: three configurations with different shell counts, discovered
\* in descending order of energy, were ranked.
C4_Witness ==
    /\ pc = "returned"
    /\ Len(E_list) = 3
    /\ E_list[1] > E_list[2] /\ E_list[2] > E_list[3]
    /\ nn_lists[1] # nn_lists[2] /\ nn_lists[2] # nn_lists[3]
    /\ argsort = <<3, 2, 1>>

(***************************************************************************)
(* Solvers: exchange_coupling, j_vector_exact, j_vector_lstsq              *)
(***************************************************************************)
MaxRows == 4
MaxSolveCells == 6

SolveCounts == {-1, 0, 1, 2}
\* the lowest energy and the differences of consecutive ranked energies
LowestEnergy == -100
EnergySteps == {0, 5}
\* the value of the leading column
SolveFactors == {1}

\* the same matrix with its rows and itself held as evaluated tuples
Array(m) == [r \in DOMAIN m |-> m[r] \o <<>>] \o <<>>

RECURSIVE SumSeq(_)
SumSeq(s) == IF s = <<>> THEN 0 ELSE s[1] + SumSeq(Tail(s))

RECURSIVE SumOver(_, _)
SumOver(S, f) ==
    IF S = {} THEN 0
    ELSE LET x == CHOOSE y \in S : TRUE IN f[x] + SumOver(S \ {x}, f)

\* the sequence s without the positions in S
RECURSIVE Without(_, _, _)
Without(s, S, k) ==
    IF k > Len(s) THEN <<>>
    ELSE (IF k \in S THEN <<>> ELSE <<s[k]>>) \o Without(s, S, k + 1)

\* the matrix m without the rows in R and the columns in C
Minor(m, R, C) ==
    Array([r \in DOMAIN Without(m, R, 1) |-> Without(Without(m, R, 1)[r], C, 1)])

\* the matrix m without its first row and its column c
FirstMinor(m, c) ==
    Array([r \in 1..Len(m) - 1 |->
        [q \in 1..Len(m) - 1 |-> m[r + 1][IF q < c THEN q ELSE q + 1]]])

\* np.linalg.det of a square matrix, exactly (expansion along the first row)
RECURSIVE Det(_)
Det(m) ==
    IF Len(m) = 0 THEN 1
    ELSE IF Len(m) = 1 THEN m[1][1]
    ELSE IF Len(m) = 2 THEN m[1][1] * m[2][2] - m[1][2] * m[2][1]
    ELSE SumSeq([c \in 1..Len(m) |->
            (IF c % 2 = 1 THEN 1 ELSE -1) * m[1][c] * Det(FirstMinor(m, c))])

ReplaceColumn(m, j, col) ==
    Array([r \in DOMAIN m |-> [c \in DOMAIN m[r] |-> IF c = j THEN col[r] ELSE m[r][c]]])

Transpose(m) == Array([c \in 1..Len(m[1]) |-> [r \in DOMAIN m |-> m[r][c]]])

\* rows and columns are mixed up: the transposed system is solved
LinalgSolveTransposed(m, b) ==
    [num |-> [j \in 1..Len(m) |-> Det(ReplaceColumn(Transpose(m), j, b))] \o <<>>,
     den |-> Det(m)]

\* np.linalg.solve of a regular system, exactly: the components num[j] / den
LinalgSolve(m, b) ==
    [num |-> [j \in 1..Len(m) |-> Det(ReplaceColumn(m, j, b))] \o <<>>, den |-> Det(m)]

\* lines 193-194 and 218-219
Energies(sm) == [r \in DOMAIN sm |-> Last(sm[r])] \o <<>>
Coefficients(sm) == Array([r \in DOMAIN sm |-> SubSeq(sm[r], 1, Len(sm[r]) - 1)])

\* matrix[:rows, :cols]
Slice(m, rows, cols) == Array([r \in 1..Min(rows, Len(m)) |-> Take(m[r], cols)])

IsSquare(m) == \A r \in DOMAIN m : Len(m[r]) = Len(m)

\* the determinant is not tested: the system is solved whatever it is
exchange_coupling_unchecked(m, b) ==
    IF ~IsSquare(m) THEN [raises |-> TRUE, value |-> <<>>]
    ELSE [raises |-> FALSE, value |-> <<LinalgSolve(m, b)>>]

\* lines 180-184: np.linalg.det raises on a matrix that is not square;
\* otherwise the value is None (no solution) or the solution vector
exchange_coupling(m, b) ==
    IF ~IsSquare(m) THEN [raises |-> TRUE, value |-> <<>>]
    ELSE IF Det(m) # 0 THEN [raises |-> FALSE, value |-> <<LinalgSolve(m, b)>>]
    ELSE [raises |-> FALSE, value |-> <<>>]

\* the normal equations (A^T A) x = A^T b
Gram(m) ==
    Array([p \in 1..Len(m[1]) |-> [q \in 1..Len(m[1]) |->
        SumSeq([r \in DOMAIN m |-> m[r][p] * m[r][q]])]])
Moment(m, b) ==
    [p \in 1..Len(m[1]) |-> SumSeq([r \in DOMAIN m |-> m[r][p] * b[r]])] \o <<>>

\* the sum of the principal minors of g that leave out n of the indices other than j
MinorSum(g, n, j) ==
    LET sets == {S \in SUBSET ((1..Len(g)) \ {j}) : Cardinality(S) = n}
    IN SumOver(sets, [S \in sets |-> Det(Minor(g, S, S))])

\* the rank deficiency of g: the lowest order of the characteristic polynomial
Deficiency(g) == CHOOSE n \in 0..Len(g) :
    /\ MinorSum(g, n, 0) # 0
    /\ \A l \in 0..n - 1 : MinorSum(g, l, 0) = 0

\* np.linalg.lstsq(m, b)[0], exactly: the least-squares solution of minimum
\* norm, the limit of (A^T A + d I)^-1 A^T b for d -> 0
LinalgLstsq(m, b) ==
    LET g == Gram(m)
        n == Deficiency(g)
    IN [num |-> [j \in 1..Len(g) |-> MinorSum(ReplaceColumn(g, j, Moment(m, b)), n, j)],
        den |-> MinorSum(g, n, 0)]

\* lines 205-206 and 226-227
GeomList(res) == [k \in DOMAIN res |-> [num |-> res[k].num[1], den |-> res[k].den]]
JVectors(res) == [k \in DOMAIN res |-> [num |-> Tail(res[k].num), den |-> res[k].den]]

\* the shapes <<rows, shell columns>> of the inputs: the assembler keeps at
\* most N - 1 shell columns for N rows (line 156)
SolveShapes ==
    {t \in (1..MaxRows) \X (0..MaxRows) :
        t[2] <= t[1] - 1 /\ t[1] * t[2] <= MaxSolveCells}

AscendingEnergies(n) ==
    {e \in [1..n -> LowestEnergy..(LowestEnergy + 5 * (n - 1))] :
        /\ e[1] = LowestEnergy
        /\ \A r \in 1..n - 1 : e[r + 1] - e[r] \in EnergySteps}

\* a ranked matrix: the leading column f, the shell counts times f, the energy
RankedMatrix(f, nn, E) ==
    [r \in DOMAIN E |-> <<f>> \o [c \in DOMAIN nn[r] |-> f * nn[r][c]] \o <<E[r]>>]

InitSolve(start) ==
    /\ pc = start
    /\ \E t \in SolveShapes, f \in SolveFactors :
        \E nn \in [1..t[1] -> [1..t[2] -> SolveCounts]], E \in AscendingEnergies(t[1]) :
            sorted_matrix = RankedMatrix(f, nn, E)
    /\ i = 2
    /\ results = <<>>
    /\ E_geom_list = <<>>
    /\ j_vectors_list = <<>>
    /\ E_list = <<>> /\ nn_lists = <<>> /\ spin2 = 0 /\ nn_matrix = <<>>
    /\ full_matrix = <<>> /\ argsort = <<>>
    /\ ValIdle /\ NNIdle /\ TcIdle

SolveFrame == UNCHANGED <<sorted_matrix, E_geom_list, j_vectors_list, valVars,
                          nnVars, rankVars, tcVars>>

\* lines 199-201
ExactAttempt ==
    exchange_coupling(Slice(Coefficients(sorted_matrix), i, i),
                      Take(Energies(sorted_matrix), i))

\* lines 198-203 with a solution
ExactSolve ==
    /\ pc = "j_vector_exact"
    /\ i <= Len(sorted_matrix)
    /\ ~ExactAttempt.raises
    /\ ExactAttempt.value # <<>>
    /\ results' = Append(results, ExactAttempt.value[1])
    /\ i' = i + 1
    /\ pc' = pc
    /\ SolveFrame

\* lines 198-202 with a zero determinant
ExactSkip ==
    /\ pc = "j_vector_exact"
    /\ i <= Len(sorted_matrix)
    /\ ~ExactAttempt.raises
    /\ ExactAttempt.value = <<>>
    /\ i' = i + 1
    /\ UNCHANGED <<pc, results>>
    /\ SolveFrame

\* line 181 on a matrix that is not square
ExactRaise ==
    /\ pc = "j_vector_exact"
    /\ i <= Len(sorted_matrix)
    /\ ExactAttempt.raises
    /\ pc' = "LinAlgError"
    /\ UNCHANGED <<i, results>>
    /\ SolveFrame

\* lines 205-207
ExactReturn ==
    /\ pc = "j_vector_exact"
    /\ i > Len(sorted_matrix)
    /\ E_geom_list' = GeomList(results)
    /\ j_vectors_list' = JVectors(results)
    /\ pc' = "returned"
    /\ UNCHANGED <<sorted_matrix, i, results, valVars, nnVars, rankVars, tcVars>>

InitExact == InitSolve("j_vector_exact")

NextExact ==
    \/ ExactSolve
    \/ ExactSkip
    \/ ExactRaise
    \/ ExactReturn

SpecExact == InitExact /\ [][NextExact]_vars

\* the least-squares fit is skipped where the exact solver skips
lstsq_append_unless_singular(res, sm, n) ==
    IF IsSquare(Slice(Coefficients(sm), n, n)) /\ Det(Slice(Coefficients(sm), n, n)) = 0
    THEN res
    ELSE Append(res, LinalgLstsq(Slice(Coefficients(sm), Len(sm), n), Energies(sm)))

\* lines 223-225
lstsq_append(res, sm, n) ==
    Append(res, LinalgLstsq(Slice(Coefficients(sm), Len(sm), n), Energies(sm)))

LstsqStep ==
    /\ pc = "j_vector_lstsq"
    /\ i <= Len(sorted_matrix)
    /\ results' = lstsq_append(results, sorted_matrix, i)
    /\ i' = i + 1
    /\ pc' = pc
    /\ SolveFrame

\* lines 226-228
LstsqReturn ==
    /\ pc = "j_vector_lstsq"
    /\ i > Len(sorted_matrix)
    /\ E_geom_list' = GeomList(results)
    /\ j_vectors_list' = JVectors(results)
    /\ pc' = "returned"
    /\ UNCHANGED <<sorted_matrix, i, results, valVars, nnVars, rankVars, tcVars>>

InitLstsq == InitSolve("j_vector_lstsq")

NextLstsq ==
    \/ LstsqStep
    \/ LstsqReturn

SpecLstsq == InitLstsq /\ [][NextLstsq]_vars

\* the number of rows and of coefficient columns of the ranked matrix
Rows == Len(sorted_matrix)
Cols == Len(sorted_matrix[1]) - 1

LeadingSystem(n) == [r \in 1..n |-> SubSeq(sorted_matrix[r], 1, n)]
RegularSizes(upto) == {n \in 2..upto : Det(LeadingSystem(n)) # 0}

\* x = num / den solves the leading n x n system with the leading n energies
SolvesLeading(x, n) ==
    /\ x.den # 0
    /\ Len(x.num) = n
    /\ \A r \in 1..n :
        SumSeq([c \in 1..n |-> sorted_matrix[r][c] * x.num[c]])
            = x.den * Last(sorted_matrix[r])

\* the solution with geometric energy eg and coupling vector jv
Joined(eg, jv) == [num |-> <<eg.num>> \o jv.num, den |-> jv.den]

\* what the exact solver returns: one solution per regular size, in ascending
\* order of the size, the coupling vector of size n of length n - 1
ExactResult(geoms, jvecs) ==
    /\ Len(geoms) = Cardinality(RegularSizes(Rows))
    /\ Len(jvecs) = Len(geoms)
    /\ \A k \in DOMAIN jvecs :
        /\ Len(jvecs[k].num) + 1 \in RegularSizes(Rows)
        /\ geoms[k].den = jvecs[k].den
        /\ SolvesLeading(Joined(geoms[k], jvecs[k]), Len(jvecs[k].num) + 1)
        /\ k > 1 => Len(jvecs[k - 1].num) < Len(jvecs[k].num)

C6_UnderdeterminedFails ==
    Rows < 2 => pc # "returned"

\* the scenario of C7
Scenario == <<<<1, 2, -100>>, <<1, 1, -95>>, <<1, 0, -90>>, <<1, -1, -85>>>>

LeastSquares(x, n) ==
    /\ x.den # 0
    /\ Len(x.num) = n
    /\ \A c \in 1..n :
        SumSeq([r \in 1..Rows |->
            sorted_matrix[r][c] *
                (SumSeq([q \in 1..n |-> sorted_matrix[r][q] * x.num[q]])
                    - x.den * Last(sorted_matrix[r]))]) = 0

LstsqResult(lengths) ==
    /\ Len(E_geom_list) = Rows - 1
    /\ Len(j_vectors_list) = Rows - 1
    /\ \A k \in 1..Rows - 1 :
        /\ Len(j_vectors_list[k].num) = lengths[k]
        /\ E_geom_list[k].den = j_vectors_list[k].den
        /\ LeastSquares(Joined(E_geom_list[k], j_vectors_list[k]), lengths[k] + 1)

MaxSolutions == 2
MaxJLen == 2
MaxZLen == 2

JValues == {-2, 3}
ZValues == {2, 6}

\* 2 * pi / (3 * k_B) = 24304.4459 K/eV, in 1e-4 K per meV
TcFactor == 243044

NonEmptySeqsUpTo(S, n) == UNION {[1..m -> S] : m \in 1..n}

\* line 235: whether numpy can broadcast the two operands of j_vector * z_vector_tmp
Broadcasts(j, z) == Len(j) = Len(z) \/ Len(j) = 1 \/ Len(z) = 1

\* line 235: j_vector * z_vector_tmp with numpy's broadcasting
Product(j, z) ==
    IF Len(j) = Len(z) THEN [m \in DOMAIN j |-> j[m] * z[m]]
    ELSE IF Len(z) = 1 THEN [m \in DOMAIN j |-> j[m] * z[1]]
    ELSE [m \in DOMAIN z |-> j[1] * z[m]]

\* the absolute value is left out
T_c_signed(j, z) == TcFactor * SumSeq(Product(j, Take(z, Len(j))))

\* lines 234-235, in 1e-4 K
T_c(j, z) == Abs(TcFactor * SumSeq(Product(j, Take(z, Len(j)))))

\* line 237: round(1), from 1e-4 K to 0.1 K
Round1(t) == (t + 500) \div 1000

InitTc ==
    /\ pc = "Tc_list_getter"
    /\ j_vector_list \in SeqsUpTo(NonEmptySeqsUpTo(JValues, MaxJLen), MaxSolutions)
    /\ z_vector \in SeqsUpTo(ZValues, MaxZLen)
    /\ T_c_list = <<>>
    /\ ValIdle /\ NNIdle /\ RankIdle /\ SolveIdle

\* lines 233-236: one iteration
TcStep ==
    /\ pc = "Tc_list_getter"
    /\ Len(T_c_list) < Len(j_vector_list)
    /\ LET j_vector == j_vector_list[Len(T_c_list) + 1]
       IN /\ Broadcasts(j_vector, Take(z_vector, Len(j_vector)))
          /\ T_c_list' = Append(T_c_list, T_c(j_vector, z_vector))
    /\ UNCHANGED <<pc, j_vector_list, z_vector, valVars, nnVars, rankVars, solveVars>>

\* line 235 with operands that cannot be broadcast
TcRaise ==
    /\ pc = "Tc_list_getter"
    /\ Len(T_c_list) < Len(j_vector_list)
    /\ LET j_vector == j_vector_list[Len(T_c_list) + 1]
       IN ~Broadcasts(j_vector, Take(z_vector, Len(j_vector)))
    /\ pc' = "ValueError"
    /\ UNCHANGED <<tcVars, valVars, nnVars, rankVars, solveVars>>

\* lines 237-238
TcReturn ==
    /\ pc = "Tc_list_getter"
    /\ Len(T_c_list) = Len(j_vector_list)
    /\ T_c_list' = [n \in DOMAIN T_c_list |-> Round1(T_c_list[n])]
    /\ pc' = "returned"
    /\ UNCHANGED <<j_vector_list, z_vector, valVars, nnVars, rankVars, solveVars>>

NextTc ==
    \/ TcStep
    \/ TcRaise
    \/ TcReturn

SpecTc == InitTc /\ [][NextTc]_vars

\* sum_{m = 1..k} J_m * z_m over the first k entries of z
Dot(j, z) == SumOver(DOMAIN j, [m \in DOMAIN j |-> j[m] * z[m]])

\* C9: the output is parallel to the input solution sequence; the entry of a
\* coupling vector J of length k is |2 pi sum_{m=1..k} J_m z_m / (3 k_B)|
\* (to one decimal place) over the first k entries of z, and it is
\* non-negative whatever the signs of the J_m.
C9_TcParallelNonNegative ==
    pc = "returned" =>
        /\ Len(T_c_list) = Len(j_vector_list)
        /\ \A n \in DOMAIN T_c_list :
            /\ T_c_list[n] >= 0
            /\ Len(z_vector) >= Len(j_vector_list[n]) =>
                \E t \in {TcFactor * Dot(j_vector_list[n], z_vector)} :
                    T_c_list[n] = (IF t < 0 THEN 500 - t ELSE t + 500) \div 1000

\* C9 witness: two coupling vectors, the first shorter than z and with a
\* negative sum, the second with a positive sum.
C9_Witness ==
    /\ pc = "returned"
    /\ Len(j_vector_list) = 2
    /\ Len(j_vector_list[1]) < Len(z_vector)
    /\ Dot(j_vector_list[1], z_vector) < 0
    /\ Len(j_vector_list[2]) = Len(z_vector)
    /\ Dot(j_vector_list[2], z_vector) > 0
    /\ T_c_list[1] > 0 /\ T_c_list[2] > 0

====
